---- MODULE Spec2Model ----
(***************************************************************************)
(* A model of resumr: the /analyze request handler (src/app.py), the text  *)
(* normalizer, similarity scorer and missing-keyword report                *)
(* (src/analyzer.py) and the extraction dispatcher                         *)
(* (src/resume_extractor.py).                                              *)
(*                                                                         *)
(* A Python str is a sequence of one-character strings; None is the        *)
(* distinguished value NoneText.                                           *)
(***************************************************************************)
EXTENDS Integers, Sequences, FiniteSets, TLC

VARIABLES
    pc,            \* position of the analyze handler
    form_jd,       \* request.form.get('job_description', ''), before .strip()
    has_field,     \* 'resumes' in request.files
    files,         \* request.files.getlist('resumes'): the uploads' filenames
    jd_text,       \* app.py:29
    cur,           \* index of the upload the loop of app.py:41 is at
    text,          \* app.py:46, the text of the current upload
    disk,          \* the temporary files that exist (by upload index)
    saved,         \* uploads that were ever written to a temporary file
    extracted,     \* uploads extract_resume_text was called on
    outcome,       \* per upload: what extraction gave
    resume_texts,  \* app.py:40
    filenames,     \* app.py:40
    srcs,          \* the upload index behind each entry of filenames
    scored,        \* compute_similarity or missing_keywords has run
    raised,        \* an exception reached the handler of app.py:77
    status,        \* HTTP status of the response, 0 before it is sent
    body,          \* JSON body of the response
    call,          \* arguments of a direct call of an analyzer function
    ret            \* what that call returned

vars == <<pc, form_jd, has_field, files, jd_text, cur, text, disk, saved,
          extracted, outcome, resume_texts, filenames, srcs, scored, raised,
          status, body, call, ret>>

handlerVars == <<pc, form_jd, has_field, files, jd_text, cur, text, disk,
                 saved, extracted, outcome, resume_texts, filenames, srcs,
                 scored, raised, status, body>>

-----------------------------------------------------------------------------
(* Bounds *)

MaxLen == 4

MaxFiles == 2

MaxResumes == 3

MaxKwLen == 5

-----------------------------------------------------------------------------
(* Characters and str methods *)

LowerSeq == <<"a","b","c","d","e","f","g","h","i","j","k","l","m",
              "n","o","p","q","r","s","t","u","v","w","x","y","z">>

UpperSeq == <<"A","B","C","D","E","F","G","H","I","J","K","L","M",
              "N","O","P","Q","R","S","T","U","V","W","X","Y","Z">>

LowerChars == {LowerSeq[k] : k \in 1..Len(LowerSeq)}

UpperChars == {UpperSeq[k] : k \in 1..Len(UpperSeq)}

DigitChars == {"0","1","2","3","4","5","6","7","8","9"}

SpaceChars == {" ", "\t", "\n"}

NoneText == <<"<None>">>

\* Python truthiness of a str or None
Truthy(s) == s # NoneText /\ s # <<>>

LowerChar(c) ==
    IF c \in UpperChars
    THEN LowerSeq[CHOOSE k \in 1..Len(UpperSeq) : UpperSeq[k] = c]
    ELSE c

\* str.lower()
Lower(s) == [k \in 1..Len(s) |-> LowerChar(s[k])]

RECURSIVE LStrip(_, _)
LStrip(s, cs) ==
    IF s # <<>> /\ Head(s) \in cs THEN LStrip(Tail(s), cs) ELSE s

RECURSIVE RStrip(_, _)
RStrip(s, cs) ==
    IF s # <<>> /\ s[Len(s)] \in cs
    THEN RStrip(SubSeq(s, 1, Len(s) - 1), cs)
    ELSE s

\* str.strip(chars)
StripChars(s, cs) == RStrip(LStrip(s, cs), cs)

\* str.strip()
Strip(s) == StripChars(s, SpaceChars)

\* str.endswith(suffix)
EndsWith(s, suffix) ==
    /\ Len(s) >= Len(suffix)
    /\ SubSeq(s, Len(s) - Len(suffix) + 1, Len(s)) = suffix

RECURSIVE SeqsUpTo(_, _)
SeqsUpTo(S, n) ==
    IF n = 0 THEN {<<>>}
    ELSE LET shorter == SeqsUpTo(S, n - 1)
         IN  shorter \cup {Append(s, c) : s \in {t \in shorter : Len(t) = n - 1}, c \in S}

-----------------------------------------------------------------------------
(* analyzer.py: preprocess_text *)

\* re.sub(r'[^a-zA-Z0-9\s+#]', ' ', text)
SubSpecials(s) ==
    [k \in 1..Len(s) |->
        IF s[k] \in LowerChars \cup UpperChars \cup DigitChars \cup SpaceChars \cup {"+", "#"}
        THEN s[k] ELSE " "]

\* re.sub(r'\s+', ' ', text)
RECURSIVE CollapseSpaces(_)
CollapseSpaces(s) ==
    IF s = <<>> THEN <<>>
    ELSE IF Head(s) \in SpaceChars
         THEN <<" ">> \o CollapseSpaces(LStrip(s, SpaceChars))
         ELSE <<Head(s)>> \o CollapseSpaces(Tail(s))

\* the two substitutions in the wrong order
preprocess_text_swapped(t) ==
    IF ~Truthy(t) THEN <<>>
    ELSE Strip(SubSpecials(CollapseSpaces(Lower(t))))

preprocess_text(t) ==
    IF ~Truthy(t) THEN <<>>
    ELSE Strip(CollapseSpaces(SubSpecials(Lower(t))))

-----------------------------------------------------------------------------
(* sklearn TfidfVectorizer(stop_words="english", ngram_range=(1, 2),        *)
(* max_features=500, min_df=1, max_df=0.95), as far as compute_similarity  *)
(* depends on it: which terms are kept, and when fit_transform raises.     *)

WordChars == LowerChars \cup UpperChars \cup DigitChars \cup {"_"}

\* the maximal runs of word characters of s, in order
RECURSIVE Words(_)
Words(s) ==
    IF s = <<>> THEN <<>>
    ELSE IF Head(s) \notin WordChars THEN Words(Tail(s))
    ELSE LET n == IF \E k \in 1..Len(s) : s[k] \notin WordChars
                  THEN (CHOOSE k \in 1..Len(s) :
                            /\ s[k] \notin WordChars
                            /\ \A j \in 1..(k - 1) : s[j] \in WordChars) - 1
                  ELSE Len(s)
         IN  <<SubSeq(s, 1, n)>> \o Words(SubSeq(s, n + 1, Len(s)))

\* members of sklearn's English stop-word list
StopWords == { <<"a","n">>, <<"t","h","e">>, <<"a","n","d">>, <<"o","f">> }

\* token_pattern (?u)\b\w\w+\b, then stop-word removal
Tokenize(doc) ==
    LET keep(w) == Len(w) >= 2 /\ w \notin StopWords
    IN  SelectSeq(Words(doc), keep)

\* unigrams and bigrams
Terms(doc) ==
    LET ts == Tokenize(doc)
    IN  {<<ts[k]>> : k \in 1..Len(ts)}
            \cup {<<ts[k], ts[k + 1]>> : k \in 1..(Len(ts) - 1)}

MaxFeatures == 500

MinDf == 1

\* max_df = 0.95, in hundredths
MaxDfPct == 95

\* the terms of each document
TermSets(documents) == [d \in 1..Len(documents) |-> Terms(documents[d])]

DocFreq(term, termsets) ==
    Cardinality({d \in 1..Len(termsets) : term \in termsets[d]})

AllTerms(termsets) == UNION {termsets[d] : d \in 1..Len(termsets)}

\* _limit_features: min_df <= df <= max_df * n_doc, then the max_features cap
Vocabulary(termsets) ==
    LET kept == {t \in AllTerms(termsets) :
                    /\ DocFreq(t, termsets) >= MinDf
                    /\ 100 * DocFreq(t, termsets) <= MaxDfPct * Len(termsets)}
    IN  IF Cardinality(kept) <= MaxFeatures THEN kept
        ELSE CHOOSE top \in SUBSET kept : Cardinality(top) = MaxFeatures

\* fit_transform raises ValueError: empty vocabulary, max_df below min_df,
\* or no term left after pruning
FitRaises(termsets) ==
    \/ AllTerms(termsets) = {}
    \/ MaxDfPct * Len(termsets) < 100 * MinDf
    \/ Vocabulary(termsets) = {}

\* cosine similarities, in 1/10000: 0 when the two rows share no kept term
CosLevels == {2500, 10000}

CosineChoices(termsets) ==
    LET V == Vocabulary(termsets)
        n == Len(termsets) - 1
        shares == [k \in 1..n |-> termsets[1] \cap termsets[k + 1] \cap V # {}]
    IN  {c \in [1..n -> CosLevels \cup {0}] : \A k \in 1..n : c[k] = 0 <=> ~shares[k]}

-----------------------------------------------------------------------------
(* analyzer.py: extract_keywords.  The spaCy pipeline is represented by a  *)
(* lexicon: the words it tags NOUN/PROPN/ADJ, each its own lemma, and as   *)
(* noun chunks the runs of up to three adjacent such words.                *)

\* members of the tech_terms alternation of analyzer.py:86-89
TechTerms == { <<"s","q","l">>, <<"g","i","t">>, <<"a","i">> }

Nouns == { <<"s","q","l">>, <<"g","i","t">>, <<"c","v">>, <<"d","e","v">> }

IsAlnum(w) == w # <<>> /\ \A k \in 1..Len(w) : w[k] \in LowerChars \cup UpperChars \cup DigitChars

RECURSIVE JoinWords(_)
JoinWords(ws) ==
    IF ws = <<>> THEN <<>>
    ELSE IF Len(ws) = 1 THEN ws[1]
    ELSE ws[1] \o <<" ">> \o JoinWords(Tail(ws))

NounChunks(ws) ==
    {JoinWords(SubSeq(ws, a, b)) : <<a, b>> \in
        {p \in (1..Len(ws)) \X (1..Len(ws)) :
            /\ p[1] <= p[2]
            /\ p[2] - p[1] + 1 <= 3
            /\ \A k \in p[1]..p[2] : ws[k] \in Nouns
            /\ (p[1] = 1 \/ ws[p[1] - 1] \notin Nouns)
            /\ (p[2] = Len(ws) \/ ws[p[2] + 1] \notin Nouns)}}

extract_keywords(t) ==
    IF ~Truthy(t) THEN {}
    ELSE LET ws == Words(Lower(t))
         IN  {ws[k] : k \in {j \in 1..Len(ws) : ws[j] \in TechTerms}}
                \cup {ws[k] : k \in {j \in 1..Len(ws) :
                                        /\ ws[j] \in Nouns
                                        /\ ws[j] \notin StopWords
                                        /\ Len(ws[j]) > 2
                                        /\ IsAlnum(ws[j])}}
                \cup NounChunks(ws)

-----------------------------------------------------------------------------
(* analyzer.py: compute_similarity.  Scores are in 1/10000, so that a      *)
(* score is also its "Match %" in hundredths of a percent.                 *)

Scale == 10000

\* the flat fallback score of analyzer.py:66
FallbackScore == 5000

\* a frame with one row per distinct filename, the first of each
FrameByName(names, matches) ==
    LET F[k \in 0..Len(names)] ==
            IF k = 0 THEN <<>>
            ELSE IF \E j \in 1..(k - 1) : names[j] = names[k] THEN F[k - 1]
            ELSE Append(F[k - 1], [Resume |-> names[k], Match |-> matches[k], src |-> k])
    IN  F[Len(names)]

\* pd.DataFrame({"Resume": filenames, "Match %": matches}); src is the row's
\* position in the input
Frame(names, matches) ==
    [k \in 1..Len(names) |-> [Resume |-> names[k], Match |-> matches[k], src |-> k]]

Perms(n) == {p \in [1..n -> 1..n] : \A a, b \in 1..n : p[a] = p[b] => a = b}

NonIncreasing(t) == \A k \in 1..(Len(t) - 1) : t[k].Match >= t[k + 1].Match

\* df.sort_values(by="Match %", ascending=False).reset_index(drop=True): the
\* default kind is quicksort, which leaves the order of equal keys open
SortValues(df) ==
    {[k \in 1..Len(df) |-> df[p[k]]] : p \in
        {q \in Perms(Len(df)) : NonIncreasing([k \in 1..Len(df) |-> df[q[k]]])}}

\* analyzer.py:50-56
KeywordScores(jd, texts) ==
    LET jd_keywords == extract_keywords(jd)
    IN  [k \in 1..Len(texts) |->
            IF jd_keywords # {}
            THEN (Cardinality(jd_keywords \cap extract_keywords(texts[k])) * Scale)
                     \div Cardinality(jd_keywords)
            ELSE 0]

\* analyzer.py:59-62
FinalScores(cos, kw) == [k \in 1..Len(kw) |-> (7 * cos[k] + 3 * kw[k] + 5) \div 10]

Documents(jd, texts) ==
    <<preprocess_text(jd)>> \o [k \in 1..Len(texts) |-> preprocess_text(texts[k])]

\* not any(documents)
NoneNonEmpty(documents) == \A d \in 1..Len(documents) : ~Truthy(documents[d])

\* analyzer.py:37-73: vectorize, score, fall back, sort
ScoreAndSort(jd, texts, names) ==
    LET termsets == TermSets(Documents(jd, texts))
        fails == FitRaises(termsets)
        scores == IF fails
                  THEN {[k \in 1..Len(texts) |-> FallbackScore]}
                  ELSE LET kw == KeywordScores(jd, texts)
                       IN  {FinalScores(c, kw) : c \in CosineChoices(termsets)}
    IN  {[table |-> t, vectorized |-> TRUE, keyworded |-> ~fails, fell_back |-> fails, raises |-> FALSE] :
            t \in UNION {SortValues(Frame(names, sc)) : sc \in scores}}

\* compute_similarity whose fallback does not cover fit_transform
compute_similarity_uncaught(jd, texts, names) ==
    LET documents == Documents(jd, texts)
    IN  IF NoneNonEmpty(documents)
        THEN {[table |-> Frame(names, [k \in 1..Len(names) |-> 0]),
               vectorized |-> FALSE, keyworded |-> FALSE, fell_back |-> FALSE,
               raises |-> FALSE]}
        ELSE IF FitRaises(TermSets(documents))
        THEN {[table |-> <<>>, vectorized |-> TRUE, keyworded |-> FALSE,
               fell_back |-> FALSE, raises |-> TRUE]}
        ELSE ScoreAndSort(jd, texts, names)

\* compute_similarity without the short cut of analyzer.py:34-35
compute_similarity_no_shortcut(jd, texts, names) == ScoreAndSort(jd, texts, names)

\* the tables compute_similarity may return, each with what ran to make it
compute_similarity(jd, texts, names) ==
    LET documents == Documents(jd, texts)
    IN  IF NoneNonEmpty(documents)
        THEN {[table |-> Frame(names, [k \in 1..Len(names) |-> 0]),
               vectorized |-> FALSE, keyworded |-> FALSE, fell_back |-> FALSE,
               raises |-> FALSE]}
        ELSE ScoreAndSort(jd, texts, names)

-----------------------------------------------------------------------------
(* analyzer.py: missing_keywords *)

TopMissing == 15

\* str.isdigit()
IsDigit(w) == w # <<>> /\ \A k \in 1..Len(w) : w[k] \in DigitChars

Filtered(jd_keywords, resume_keywords) ==
    {kw \in jd_keywords \ resume_keywords : Len(kw) > 2 /\ ~IsDigit(kw)}

\* set(sorted(filtered, key=len)[:15]), the shortest first
FirstShortest(filtered) ==
    IF Cardinality(filtered) <= TopMissing THEN {filtered}
    ELSE LET shorter(L) == {kw \in filtered : Len(kw) < L}
             same(L) == {kw \in filtered : Len(kw) = L}
             cut == CHOOSE L \in {Len(kw) : kw \in filtered} :
                        /\ Cardinality(shorter(L)) < TopMissing
                        /\ Cardinality(shorter(L)) + Cardinality(same(L)) >= TopMissing
         IN  {shorter(cut) \cup part : part \in
                 {q \in SUBSET same(cut) :
                     Cardinality(q) = TopMissing - Cardinality(shorter(cut))}}

\* set(sorted(filtered, key=len, reverse=True)[:15]): the sort is stable over
\* the set's iteration order, which is arbitrary, so the first 15 are all the
\* keywords longer than the length at the cut and any of those of that length
FirstLongest(filtered) ==
    IF Cardinality(filtered) <= TopMissing THEN {filtered}
    ELSE LET longer(L) == {kw \in filtered : Len(kw) > L}
             same(L) == {kw \in filtered : Len(kw) = L}
             cut == CHOOSE L \in {Len(kw) : kw \in filtered} :
                        /\ Cardinality(longer(L)) < TopMissing
                        /\ Cardinality(longer(L)) + Cardinality(same(L)) >= TopMissing
         IN  {longer(cut) \cup part : part \in
                 {q \in SUBSET same(cut) :
                     Cardinality(q) = TopMissing - Cardinality(longer(cut))}}

\* analyzer.py:115-123, on the two keyword sets
MissingFrom(jd_keywords, resume_keywords) ==
    FirstLongest(Filtered(jd_keywords, resume_keywords))

missing_keywords(jd, resume_text) ==
    MissingFrom(extract_keywords(jd), extract_keywords(resume_text))

-----------------------------------------------------------------------------
(* Direct calls of the analyzer's functions *)

HandlerIdle ==
    /\ pc = "idle"
    /\ form_jd = <<>>
    /\ has_field = FALSE
    /\ files = <<>>
    /\ jd_text = <<>>
    /\ cur = 0
    /\ text = <<>>
    /\ disk = {}
    /\ saved = {}
    /\ extracted = {}
    /\ outcome = <<>>
    /\ resume_texts = <<>>
    /\ filenames = <<>>
    /\ srcs = <<>>
    /\ scored = FALSE
    /\ raised = FALSE
    /\ status = 0
    /\ body = <<>>

\* preprocess_text, applied to a string and then to its own result

NormChars == {"a", "B", "1", " ", "\n", "!", "#"}

InitNormalizer ==
    /\ HandlerIdle
    /\ call \in {[fn |-> "preprocess_text", arg |-> s] :
                    s \in SeqsUpTo(NormChars, MaxLen) \cup {NoneText}}
    /\ ret = <<>>

Normalize ==
    /\ call.fn = "preprocess_text"
    /\ Len(ret) = 0
    /\ ret' = <<preprocess_text(call.arg)>>
    /\ UNCHANGED <<call, handlerVars>>

Renormalize ==
    /\ call.fn = "preprocess_text"
    /\ Len(ret) = 1
    /\ ret' = Append(ret, preprocess_text(ret[1]))
    /\ UNCHANGED <<call, handlerVars>>

NextNormalizer == Normalize \/ Renormalize

SpecNormalizer == InitNormalizer /\ [][NextNormalizer]_vars

\* compute_similarity

SimTexts == { <<>>,
              <<"!", "!">>,
              <<"a", "n">>,
              <<"S", "Q", "L">>,
              <<"s", "q", "l", " ", "g", "i", "t">> }

DigitSeq == <<"0", "1", "2", "3", "4", "5", "6", "7", "8", "9">>

PdfName(k) == <<"r", DigitSeq[k + 1], ".", "p", "d", "f">>

\* filenames all different, or all the same
SimNames(n) == { [k \in 1..n |-> PdfName(k)], [k \in 1..n |-> PdfName(1)] }

InitSimilarity ==
    /\ HandlerIdle
    /\ call \in {[fn |-> "compute_similarity", jd_text |-> j, resume_texts |-> ts, filenames |-> ns] :
                    j \in SimTexts,
                    ts \in SeqsUpTo(SimTexts, MaxResumes),
                    ns \in UNION {SimNames(n) : n \in 0..MaxResumes}}
    /\ Len(call.resume_texts) = Len(call.filenames)
    /\ ret = <<>>

CallSimilarity ==
    /\ call.fn = "compute_similarity"
    /\ Len(ret) = 0
    /\ \E r \in compute_similarity(call.jd_text, call.resume_texts, call.filenames) :
            ret' = <<r>>
    /\ UNCHANGED <<call, handlerVars>>

NextSimilarity == CallSimilarity

SpecSimilarity == InitSimilarity /\ [][NextSimilarity]_vars

\* missing_keywords, on the keyword sets extract_keywords gave

KwChars == {"a", "b", "c", "d", "e", "f", "1", "2"}

\* the keyword made of n times the character c
Rep(c, n) == [k \in 1..n |-> c]

KwFamily(cs, n) == {Rep(c, k) : c \in cs, k \in 1..n}

InitKeywords ==
    /\ HandlerIdle
    /\ call \in {[fn |-> "missing_keywords", jd_keywords |-> KwFamily(cs, n),
                  resume_keywords |-> KwFamily(rs, m)] :
                    cs \in SUBSET KwChars, n \in 1..MaxKwLen,
                    rs \in SUBSET {"a", "b", "1"}, m \in {3, MaxKwLen}}
    /\ ret = <<>>

CallMissing ==
    /\ call.fn = "missing_keywords"
    /\ Len(ret) = 0
    /\ \E m \in MissingFrom(call.jd_keywords, call.resume_keywords) :
            ret' = <<m>>
    /\ UNCHANGED <<call, handlerVars>>

NextKeywords == CallMissing

SpecKeywords == InitKeywords /\ [][NextKeywords]_vars

-----------------------------------------------------------------------------
(* app.py: allowed_file, and werkzeug's secure_filename *)

ALLOWED_EXTENSIONS == { <<"p","d","f">>, <<"d","o","c","x">> }

HasDot(filename) == \E k \in 1..Len(filename) : filename[k] = "."

\* filename.rsplit('.', 1)[1]
AfterLastDot(filename) ==
    LET last == CHOOSE k \in 1..Len(filename) :
                    filename[k] = "." /\ \A j \in (k + 1)..Len(filename) : filename[j] # "."
    IN  SubSeq(filename, last + 1, Len(filename))

\* a gate that only asks for a dot
allowed_file_any_suffix(filename) == HasDot(filename)

allowed_file(filename) ==
    HasDot(filename) /\ Lower(AfterLastDot(filename)) \in ALLOWED_EXTENSIONS

\* "_".join(filename.split()), after the path separator became a space
RECURSIVE JoinUnderscore(_)
JoinUnderscore(s) ==
    LET t == LStrip(s, SpaceChars \cup {"/"})
    IN  IF t = <<>> THEN <<>>
        ELSE LET n == IF \E k \in 1..Len(t) : t[k] \in SpaceChars \cup {"/"}
                      THEN (CHOOSE k \in 1..Len(t) :
                                /\ t[k] \in SpaceChars \cup {"/"}
                                /\ \A j \in 1..(k - 1) : t[j] \notin SpaceChars \cup {"/"}) - 1
                      ELSE Len(t)
                 rest == JoinUnderscore(SubSeq(t, n + 1, Len(t)))
             IN  IF rest = <<>> THEN SubSeq(t, 1, n)
                 ELSE SubSeq(t, 1, n) \o <<"_">> \o rest

\* secure_filename: only [A-Za-z0-9_.-] is kept, and leading and trailing
\* dots and underscores are stripped
secure_filename(filename) ==
    LET keep(c) == c \in LowerChars \cup UpperChars \cup DigitChars \cup {"_", ".", "-"}
    IN  StripChars(SelectSeq(JoinUnderscore(filename), keep), {".", "_"})

-----------------------------------------------------------------------------
(* resume_extractor.py: extract_resume_text.  parsed is what the PDF or    *)
(* DOCX reader gives for the file's content: its stripped text, or the     *)
(* empty string when the reader failed or found no text.                   *)

extract_resume_text(filename, parsed) ==
    IF EndsWith(Lower(filename), <<".","p","d","f">>) THEN parsed
    ELSE IF EndsWith(Lower(filename), <<".","d","o","c","x">>) THEN parsed
    ELSE <<>>

-----------------------------------------------------------------------------
(* app.py: analyze *)

MsgNoJob == <<"Please", "provide", "a", "job", "description">>

MsgNoField == <<"No", "resumes", "uploaded">>

MsgNoneSelected == <<"No", "resumes", "selected">>

MsgNoText == <<"Could", "not", "extract", "text", "from", "any", "resume">>

MsgException == <<"str(e)">>

NoError == <<>>

\* validation without the check of the first filename
ValidationErrorNoneSelectedMissing(jd, field, uploads) ==
    IF ~Truthy(jd) THEN MsgNoJob
    ELSE IF ~field THEN MsgNoField
    ELSE NoError

\* app.py:30-38: the error message, or NoError
ValidationError(jd, field, uploads) ==
    IF ~Truthy(jd) THEN MsgNoJob
    ELSE IF ~field THEN MsgNoField
    ELSE IF uploads = <<>> \/ uploads[1] = <<>> THEN MsgNoneSelected
    ELSE NoError

\* a batch that keeps every text
KeepsTextAlways(t) == TRUE

\* app.py:49: if text
KeepsText(t) == Truthy(t)

\* app.py:58-64: for each resume, one of the sets missing_keywords may return
MissingRows(jd, texts) ==
    LET choices == [k \in 1..Len(texts) |-> missing_keywords(jd, texts[k])]
    IN  {m \in [1..Len(texts) -> UNION {choices[k] : k \in 1..Len(texts)}] :
            \A k \in 1..Len(texts) : m[k] \in choices[k]}

JdKeywordCap == 20

\* list(extract_keywords(jd_text))[:20], as a set
JdKeywordChoices(jd) ==
    LET kws == extract_keywords(jd)
    IN  IF Cardinality(kws) <= JdKeywordCap THEN {kws}
        ELSE {q \in SUBSET kws : Cardinality(q) = JdKeywordCap}

JobTexts == { <<>>,
              <<" ">>,
              <<"!">>,
              <<" ", "S", "Q", "L">>,
              <<"s", "q", "l", " ", "g", "i", "t">> }

UploadNames == { <<>>,
                 <<"a", ".", "p", "d", "f">>,
                 <<"b", ".", "D", "O", "C", "X">>,
                 <<"c", ".", "t", "x", "t">>,
                 <<"c", "v">>,
                 <<".", "p", "d", "f">> }

\* what the readers give for an upload's content
ParsedTexts == { <<>>,
                 <<"S", "Q", "L">>,
                 <<"g", "i", "t">>,
                 <<"!", "!">> }

Init ==
    /\ pc = "validate"
    /\ form_jd \in JobTexts
    /\ has_field \in BOOLEAN
    /\ files \in SeqsUpTo(UploadNames, MaxFiles)
    /\ has_field <=> files # <<>>
    /\ jd_text = <<>>
    /\ cur = 0
    /\ text = <<>>
    /\ disk = {}
    /\ saved = {}
    /\ extracted = {}
    /\ outcome = [k \in 1..Len(files) |-> "pending"]
    /\ resume_texts = <<>>
    /\ filenames = <<>>
    /\ srcs = <<>>
    /\ scored = FALSE
    /\ raised = FALSE
    /\ status = 0
    /\ body = <<>>
    /\ call = [fn |-> "analyze"]
    /\ ret = <<>>

\* app.py:29-38
Validate ==
    /\ pc = "validate"
    /\ jd_text' = Strip(form_jd)
    /\ LET err == ValidationError(jd_text', has_field, files)
       IN  IF err # NoError
           THEN /\ status' = 400
                /\ body' = [error |-> err]
                /\ pc' = "done"
                /\ cur' = cur
           ELSE /\ pc' = "loop"
                /\ cur' = 1
                /\ UNCHANGED <<status, body>>
    /\ UNCHANGED <<form_jd, has_field, files, text, disk, saved, extracted,
                   outcome, resume_texts, filenames, srcs, scored, raised,
                   call, ret>>

\* app.py:42, the gate fails
SkipFile ==
    /\ pc = "loop"
    /\ cur <= Len(files)
    /\ ~(Truthy(files[cur]) /\ allowed_file(files[cur]))
    /\ outcome' = [outcome EXCEPT ![cur] = "skipped"]
    /\ cur' = cur + 1
    /\ UNCHANGED <<pc, form_jd, has_field, files, jd_text, text, disk, saved,
                   extracted, resume_texts, filenames, srcs, scored, raised,
                   status, body, call, ret>>

\* app.py:42-45: the temporary file is created, and file.save writes the
\* upload to it or raises
SaveFile ==
    /\ pc = "loop"
    /\ cur <= Len(files)
    /\ Truthy(files[cur]) /\ allowed_file(files[cur])
    /\ disk' = disk \cup {cur}
    /\ saved' = saved \cup {cur}
    /\ \/ /\ pc' = "extract"
          /\ UNCHANGED outcome
       \/ /\ pc' = "except"
          /\ outcome' = [outcome EXCEPT ![cur] = "raised"]
    /\ UNCHANGED <<form_jd, has_field, files, jd_text, cur, text, extracted,
                   resume_texts, filenames, srcs, scored, raised, status,
                   body, call, ret>>

\* app.py:46-51: extract_resume_text returns and the temporary file is
\* unlinked, or it raises and the handler of app.py:77 is next
ExtractFile ==
    /\ pc = "extract"
    /\ extracted' = extracted \cup {cur}
    /\ LET filename == secure_filename(files[cur])
       IN  \/ \E parsed \in ParsedTexts :
                /\ text' = extract_resume_text(filename, parsed)
                /\ disk' = disk \ {cur}
                /\ IF KeepsText(text')
                   THEN /\ resume_texts' = Append(resume_texts, text')
                        /\ filenames' = Append(filenames, filename)
                        /\ srcs' = Append(srcs, cur)
                   ELSE UNCHANGED <<resume_texts, filenames, srcs>>
                /\ outcome' = [outcome EXCEPT ![cur] = IF Truthy(text') THEN "text" ELSE "empty"]
                /\ cur' = cur + 1
                /\ pc' = "loop"
           \/ /\ outcome' = [outcome EXCEPT ![cur] = "raised"]
              /\ pc' = "except"
              /\ UNCHANGED <<text, disk, resume_texts, filenames, srcs, cur>>
    /\ UNCHANGED <<form_jd, has_field, files, jd_text, saved, scored, raised,
                   status, body, call, ret>>

\* app.py:53-54
RespondNoText ==
    /\ pc = "loop"
    /\ cur > Len(files)
    /\ resume_texts = <<>>
    /\ status' = 400
    /\ body' = [error |-> MsgNoText]
    /\ pc' = "done"
    /\ UNCHANGED <<form_jd, has_field, files, jd_text, cur, text, disk, saved,
                   extracted, outcome, resume_texts, filenames, srcs, scored,
                   raised, call, ret>>

\* app.py:56-75
RespondRankings ==
    /\ pc = "loop"
    /\ cur > Len(files)
    /\ resume_texts # <<>>
    /\ scored' = TRUE
    /\ \E result \in compute_similarity(jd_text, resume_texts, filenames) :
       \E missing \in MissingRows(jd_text, resume_texts) :
       \E jd_keywords \in JdKeywordChoices(jd_text) :
            /\ IF result.raises
               THEN /\ pc' = "except"
                    /\ UNCHANGED <<status, body>>
               ELSE /\ status' = 200
                    /\ body' = [rankings |-> result.table,
                                missing_keywords |->
                                    [k \in 1..Len(filenames) |->
                                        [filename |-> filenames[k], missing |-> missing[k]]],
                                jd_keywords |-> jd_keywords,
                                total_resumes |-> Len(filenames)]
                    /\ pc' = "done"
    /\ UNCHANGED <<form_jd, has_field, files, jd_text, cur, text, disk, saved,
                   extracted, outcome, resume_texts, filenames, srcs, raised,
                   call, ret>>

\* app.py:77-80
HandleException ==
    /\ pc = "except"
    /\ raised' = TRUE
    /\ status' = 500
    /\ body' = [error |-> MsgException]
    /\ pc' = "done"
    /\ UNCHANGED <<form_jd, has_field, files, jd_text, cur, text, disk, saved,
                   extracted, outcome, resume_texts, filenames, srcs, scored,
                   call, ret>>

Next ==
    \/ Validate
    \/ SkipFile
    \/ SaveFile
    \/ ExtractFile
    \/ RespondNoText
    \/ RespondRankings
    \/ HandleException

Spec == Init /\ [][Next]_vars

-----------------------------------------------------------------------------
(* Properties of the analyzer's functions *)

SimDocuments == Documents(call.jd_text, call.resume_texts)

SimTermSets == TermSets(SimDocuments)

SimReturned == call.fn = "compute_similarity" /\ Len(ret) = 1

\* C5: the table compute_similarity returns is the stable descending sort of
\* its input: every input row exactly once, match percentages non-increasing,
\* and rows of equal match percentage in their input order.
C5_StableDescendingSort ==
    SimReturned =>
        LET t == ret[1].table
            n == Len(call.filenames)
        IN  /\ Len(t) = n
            /\ \A k \in 1..n : \E a \in 1..n : t[a].src = k
            /\ \A a \in 1..n : t[a].Resume = call.filenames[t[a].src]
            /\ NonIncreasing(t)
            /\ \A a, b \in 1..n :
                    (a < b /\ t[a].Match = t[b].Match) => t[a].src < t[b].src

\* C6: when the job description and every resume normalize to the empty
\* string, compute_similarity returns one row per filename, in input order,
\* each with match 0, and neither vectorizes nor extracts keywords.
C6_AllEmptyGivesZero ==
    (SimReturned /\ NoneNonEmpty(SimDocuments)) =>
        /\ ret[1].table = [k \in 1..Len(call.filenames) |->
                              [Resume |-> call.filenames[k], Match |-> 0, src |-> k]]
        /\ ~ret[1].vectorized
        /\ ~ret[1].keyworded

C6_Witness ==
    /\ SimReturned
    /\ NoneNonEmpty(SimDocuments)
    /\ Len(call.resume_texts) >= 2
    /\ call.jd_text # <<>>
    /\ \E k \in 1..Len(call.resume_texts) : call.resume_texts[k] # <<>>
    /\ Len(ret[1].table) = Len(call.filenames)

\* C7: when vectorization fails, compute_similarity does not raise and
\* returns one row per resume, each with match exactly 50 percent.
C7_FallbackIsFifty ==
    (SimReturned /\ ~NoneNonEmpty(SimDocuments) /\ FitRaises(SimTermSets)) =>
        /\ ~ret[1].raises
        /\ Len(ret[1].table) = Len(call.resume_texts)
        /\ \A k \in 1..Len(ret[1].table) : ret[1].table[k].Match = 5000

C7_Witness ==
    /\ SimReturned
    /\ ~NoneNonEmpty(SimDocuments)
    /\ FitRaises(SimTermSets)
    /\ AllTerms(SimTermSets) # {}
    /\ Len(call.resume_texts) >= 2
    /\ Len(ret[1].table) = Len(call.resume_texts)

KwReturned == call.fn = "missing_keywords" /\ Len(ret) = 1

KwEligible ==
    {kw \in call.jd_keywords :
        kw \notin call.resume_keywords /\ Len(kw) > 2 /\ ~IsDigit(kw)}

\* C8: missing_keywords returns at most 15 strings, each a job keyword that
\* is not a resume keyword, longer than 2 and not all digits, and no such
\* keyword that was left out is strictly longer than one that was kept.
C8_MissingKeywords ==
    KwReturned =>
        /\ Cardinality(ret[1]) <= 15
        /\ ret[1] \subseteq KwEligible
        /\ \A out \in KwEligible \ ret[1] : \A kept \in ret[1] : Len(out) <= Len(kept)

C8_Witness ==
    /\ KwReturned
    /\ Cardinality(KwEligible) > 15
    /\ Cardinality(ret[1]) = 15
    /\ \E out \in KwEligible \ ret[1] : \E kept \in ret[1] : Len(out) = Len(kept)
    /\ call.resume_keywords \cap call.jd_keywords # {}

\* C9: preprocess_text is idempotent, also on empty and absent input.
C9_Idempotent ==
    (call.fn = "preprocess_text" /\ Len(ret) = 2) => ret[2] = ret[1]

C9_Witness ==
    /\ call.fn = "preprocess_text"
    /\ Len(ret) = 2
    /\ ret[1] # <<>>
    /\ ret[1] # call.arg
    /\ \E k \in 1..Len(call.arg) : call.arg[k] = "!"
    /\ \E k \in 1..Len(call.arg) : call.arg[k] = "B"

-----------------------------------------------------------------------------
(* Properties of the analyze handler *)

EmptyJob == Strip(form_jd) = <<>>

NoFilesField == ~EmptyJob /\ ~has_field

NoneSelected == ~EmptyJob /\ has_field /\ files # <<>> /\ files[1] = <<>>

Mentions(msg, word) == \E k \in 1..Len(msg) : msg[k] = word

\* C1: an empty job description, a request without the resumes field and a
\* request whose first file has an empty filename each end in status 400
\* with an error object, never reach extraction or scoring, and in the last
\* two cases the message mentions resumes.
C1_ValidationRejects ==
    (EmptyJob \/ NoFilesField \/ NoneSelected) =>
        /\ saved = {}
        /\ extracted = {}
        /\ ~scored
        /\ pc \in {"validate", "done"}
        /\ pc = "done" =>
            /\ status = 400
            /\ DOMAIN body = {"error"}
            /\ (NoFilesField \/ NoneSelected) => Mentions(body.error, "resumes")

C1_Witness ==
    /\ pc = "done"
    /\ status = 400
    /\ NoneSelected
    /\ Len(files) >= 2
    /\ HasDot(files[2])
    /\ Lower(AfterLastDot(files[2])) = <<"p", "d", "f">>

\* the gate as the claim words it
GateFails(filename) ==
    \/ ~HasDot(filename)
    \/ Lower(AfterLastDot(filename)) \notin { <<"p","d","f">>, <<"d","o","c","x">> }

\* the uploads behind the rows of a 200 response
RankedUploads == {srcs[body.rankings[a].src] : a \in 1..Len(body.rankings)}

ReportedUploads == {srcs[a] : a \in 1..Len(body.missing_keywords)}

\* C2: an upload whose filename has no dot, or whose lowercased suffix is
\* neither pdf nor docx, is never written to a temporary file, never
\* extracted, and never listed in rankings or missing_keywords.
C2_GateSkipsFile ==
    \A k \in 1..Len(files) :
        GateFails(files[k]) =>
            /\ k \notin saved
            /\ k \notin disk
            /\ k \notin extracted
            /\ status = 200 => (k \notin RankedUploads /\ k \notin ReportedUploads)

C2_Witness ==
    /\ status = 200
    /\ \E k \in 1..Len(files) :
            /\ GateFails(files[k])
            /\ HasDot(files[k])
            /\ outcome[k] = "skipped"
    /\ Len(body.rankings) >= 1

ValidInput == ~EmptyJob /\ has_field /\ files # <<>> /\ files[1] # <<>>

Yielded == {k \in 1..Len(files) : outcome[k] = "text"}

\* C3: in a validated request where no step raises, a file whose extraction
\* gives the empty string is dropped: with at least one file that yielded
\* text the response is 200 and covers exactly those files, and with none it
\* is 400.
C3_EmptyExtractionDropped ==
    (pc = "done" /\ ValidInput /\ ~raised) =>
        IF Yielded # {}
        THEN /\ status = 200
             /\ RankedUploads = Yielded
             /\ ReportedUploads = Yielded
             /\ Len(body.rankings) = Cardinality(Yielded)
             /\ Len(body.missing_keywords) = Cardinality(Yielded)
        ELSE status = 400

C3_Witness ==
    /\ pc = "done"
    /\ status = 200
    /\ \E k \in 1..Len(files) :
            /\ outcome[k] = "empty"
            /\ k \in extracted
            /\ EndsWith(Lower(secure_filename(files[k])), <<".", "p", "d", "f">>)
    /\ Yielded # {}

\* C4: once the request has finished, no temporary file created for an
\* upload exists, whether its extraction succeeded, gave empty text or raised.
C4_TempFilesRemoved ==
    pc = "done" => disk = {}

CountRanked(name) ==
    Cardinality({a \in 1..Len(body.rankings) : body.rankings[a].Resume = name})

CountReported(name) ==
    Cardinality({a \in 1..Len(body.missing_keywords) : body.missing_keywords[a].filename = name})

\* C10: in a 200 response total_resumes is the number of rankings rows and
\* of missing_keywords rows and of uploads that yielded text, the
\* missing_keywords rows are in upload order, and rankings and
\* missing_keywords hold the same filenames with the same multiplicities.
C10_ResponseShape ==
    status = 200 =>
        /\ body.total_resumes = Len(body.rankings)
        /\ body.total_resumes = Len(body.missing_keywords)
        /\ body.total_resumes = Cardinality(Yielded)
        /\ ReportedUploads = Yielded
        /\ \A a, b \in 1..Len(body.missing_keywords) : a < b => srcs[a] < srcs[b]
        /\ \A a \in 1..Len(body.missing_keywords) :
                body.missing_keywords[a].filename = secure_filename(files[srcs[a]])
        /\ \A name \in {secure_filename(files[k]) : k \in 1..Len(files)} :
                CountRanked(name) = CountReported(name)

C10_Witness ==
    /\ status = 200
    /\ body.total_resumes >= 2
    /\ body.missing_keywords[1].filename = body.missing_keywords[2].filename
    /\ body.rankings[1].Resume = body.rankings[2].Resume

====
